---- MODULE Spec2Model ----
(***************************************************************************)
(* Model of the Bhutanese Legal Stamp Applicator: the App controller       *)
(* (src/App.tsx) and the per-page PdfEditor overlay (src/unnamed/part_001).*)
(* Every event handler is one atomic action (the UI thread runs a handler  *)
(* to its first await without interleaving); every continuation after an   *)
(* await is a separate action that may interleave with any other event.    *)
(* A handler is callable whenever the element it is attached to is         *)
(* rendered; the `disabled` attributes of the buttons are not modelled, so *)
(* the guards and clamps inside the handlers are what decides.             *)
(* Spec is the controller with overlapping asynchronous calls; SpecOverlay *)
(* adds the pointer gestures of the overlays, for a user who starts an     *)
(* asynchronous call only when none is pending and works on MaxMoved       *)
(* overlays; SpecGestures is one document and the overlays of two pages    *)
(* under every order of pointer events.                                    *)
(***************************************************************************)
EXTENDS Integers, Sequences, FiniteSets, TLC

\* ---------------------------------------------------------------- bounds
MaxPages == 3
MaxPending == 2
MaxDrift == 40
MaxMoved == 1

\* ---------------------------------------------------------------- layout
ContainerLeft == 8
PageStride == 400
\* clientWidth of the container of every page
ContainerWidth == 900

\* ------------------------------------------------------ program constants
DefaultX == 100
DefaultY == 100
DefaultWidth == 120
DefaultHeight == 120
MinSize == 50

\* ------------------------------------------------------------ input sets
NoFile == "null"
PdfFiles == {"a", "b"}
OtherFiles == {"t"}
Selectable == PdfFiles \cup OtherFiles \cup {NoFile}

FileType(f) == IF f \in PdfFiles THEN "application/pdf" ELSE "text/plain"

\* page count of the document stored in each PDF file: a long and a one-page one
PagesOf(f) == IF f = "a" THEN MaxPages ELSE 1

Pages == 1..MaxPages

\* size in points of page n of the document stored in file f, as getSize()
\* reports it: "a" has upright 600 x 800 pages, "b" one 300 x 600 page that is
\* stored rotated by a quarter turn
PageSize(f, n) ==
  IF f = "a" THEN [width |-> 600, height |-> 800] ELSE [width |-> 300, height |-> 600]

\* width of the viewport of page n of file f at scale 1: the width of the page
\* as it is displayed, which for a page rotated by a quarter turn is its height
ViewportWidth(f, n) == IF f = "a" THEN PageSize(f, n).width ELSE PageSize(f, n).height

\* bounding client rectangle of the container of page p (pages are stacked)
ContainerRect(p) == [left |-> ContainerLeft, top |-> ContainerLeft + (p - 1) * PageStride]

\* pointer positions of mouse events: two points over each page, given
\* relative to the page's container and turned into (clientX, clientY)
Spots == {<<185, 130>>, <<225, 150>>}
Pointers ==
  {[clientX |-> ContainerRect(p).left + o[1], clientY |-> ContainerRect(p).top + o[2]] :
     p \in Pages, o \in Spots}

\* ------------------------------------------------------------ data model
NoError == "null"
ErrInvalid == "Please select a valid PDF file."
ErrLoad == "Failed to load the PDF. Please try a different file."
ErrNoStamp == "Please add at least one stamp before downloading."
ErrExport == "An error occurred while creating the stamped PDF."

NoDoc == [src |-> NoFile, numPages |-> 0]
\* the PDFDocumentProxy that pdfjsLib.getDocument resolves with for file f
Doc(f) == [src |-> f, numPages |-> PagesOf(f)]

Stamp(x, y, w, h) == [x |-> x, y |-> y, width |-> w, height |-> h, isPlaced |-> TRUE]
DefaultStamp == Stamp(DefaultX, DefaultY, DefaultWidth, DefaultHeight)
NoStamp == [isPlaced |-> FALSE]

\* StampState = Record<number, Stamp>: a function whose domain is the key set
EmptyStamps == [p \in {} |-> NoStamp]

NoDownload == [name |-> NoFile]
NoPointer == [clientX |-> 0, clientY |-> 0]

EdInit == [isDragging |-> FALSE, isResizing |-> FALSE, dragOffset |-> [x |-> 0, y |-> 0]]

Max(a, b) == IF a >= b THEN a ELSE b
Min(a, b) == IF a <= b THEN a ELSE b
MinOf(S) == CHOOSE m \in S : \A n \in S : m <= n
RemoveAt(s, i) == SubSeq(s, 1, i - 1) \o SubSeq(s, i + 1, Len(s))

VARIABLES
  file,         \* App: selected File, or NoFile
  pdfDoc,       \* App: preview document handle, or NoDoc
  currentPage,  \* App
  stamps,       \* App: StampState
  status,       \* App: idle | loading | ready | processing
  error,        \* App
  loads,        \* handleFileChange calls suspended at their awaits, in start order
  exports,      \* handleDownload calls suspended at their awaits, in start order
  ed,           \* PdfEditor local state per page
  race,         \* history: order of selection and resolution of two overlapping loads
  last          \* history: the last handler or continuation that ran

vars == <<file, pdfDoc, currentPage, stamps, status, error, loads, exports, ed, race, last>>

\* ---------------------------------------------------------------- helpers
numPages == pdfDoc.numPages

\* PdfEditor for page p is rendered (renderContent, case 'ready')
Mounted(st, doc, p) == st = "ready" /\ doc # NoDoc /\ p <= doc.numPages

\* sidebar page controls and the Add/Remove button are rendered
ControlsShown == pdfDoc # NoDoc /\ status = "ready"

\* component state of an unmounted PdfEditor is dropped; a remount starts fresh
Remount(e, st, doc) == [p \in Pages |-> IF Mounted(st, doc, p) THEN e[p] ELSE EdInit]

\* what `last` records: the handler or continuation (op), the file it was called
\* with or runs for (f), the page it acted on, how many times in a row it ran
\* (n), the failing step of a failed export, StampState before it or at the
\* start of the export it ends (before), the document handle an export ran with
\* (doc), where the pointer of a mouse move was (at), and the download it
\* triggered (out)
Ev(op) ==
  [op |-> op, f |-> NoFile, doc |-> NoDoc, page |-> 0, n |-> 0, step |-> "none",
   at |-> NoPointer, before |-> EmptyStamps, out |-> NoDownload]
NoRace == [st |-> "none", f1 |-> NoFile, f2 |-> NoFile]

\* handler calls suspended at an await
Pending == Len(loads) + Len(exports)

Init ==
  /\ file = NoFile
  /\ pdfDoc = NoDoc
  /\ currentPage = 1
  /\ stamps = EmptyStamps
  /\ status = "idle"
  /\ error = NoError
  /\ loads = <<>>
  /\ exports = <<>>
  /\ ed = [p \in Pages |-> EdInit]
  /\ race = NoRace
  /\ last = Ev("init")

\* ------------------------------------------------------- handleFileChange
\* the test of the selection without the declared type
FileAcceptedAnyType(sel) == sel # NoFile

FileAccepted(sel) == sel # NoFile /\ FileType(sel) = "application/pdf"

RaceOnSelect(sel) ==
  IF loads = <<>> THEN [st |-> "one", f1 |-> sel, f2 |-> NoFile]
  ELSE IF race.st = "one" THEN [st |-> "two", f1 |-> race.f1, f2 |-> sel]
  ELSE NoRace

\* an accepted branch that does not call setStamps({})
NewSessionKeepsStamps(sel) ==
  [error |-> NoError, status |-> "loading", file |-> sel, pdfDoc |-> NoDoc,
   stamps |-> stamps, currentPage |-> 1]

\* the state the accepted branch sets before its first await
NewSession(sel) ==
  [error |-> NoError, status |-> "loading", file |-> sel, pdfDoc |-> NoDoc,
   stamps |-> EmptyStamps, currentPage |-> 1]

handleFileChange(sel) ==
  IF FileAccepted(sel)
  THEN /\ Pending < MaxPending
       /\ error' = NewSession(sel).error
       /\ status' = NewSession(sel).status
       /\ file' = NewSession(sel).file
       /\ pdfDoc' = NewSession(sel).pdfDoc
       /\ stamps' = NewSession(sel).stamps
       /\ currentPage' = NewSession(sel).currentPage
       /\ loads' = Append(loads, sel)
       /\ ed' = Remount(ed, NewSession(sel).status, NewSession(sel).pdfDoc)
       /\ race' = RaceOnSelect(sel)
       /\ last' = [Ev("fileAccepted") EXCEPT !.f = sel]
       /\ UNCHANGED exports
  ELSE /\ error' = ErrInvalid
       /\ last' = [Ev("fileRejected") EXCEPT !.f = sel]
       /\ UNCHANGED <<file, pdfDoc, currentPage, stamps, status, loads, exports, ed, race>>

RaceOnResolve(i) ==
  IF race.st = "two" THEN [race EXCEPT !.st = IF i = 1 THEN "ok1" ELSE "ok2"]
  ELSE IF race.st = "ok1" THEN [race EXCEPT !.st = "done12"]
  ELSE IF race.st = "ok2" THEN [race EXCEPT !.st = "done21"]
  ELSE NoRace

\* a continuation that loads the file selected last instead of its own
ResolvedDocOfSelected(i) == Doc(file)

\* `doc`: what the loading task of the i-th suspended call resolves with; the
\* call loads the bytes of its own selectedFile
ResolvedDoc(i) == Doc(loads[i])

\* continuation of handleFileChange after `await loadingTask.promise` resolves
LoadResolved(i) ==
  /\ i \in 1..Len(loads)
  /\ pdfDoc' = ResolvedDoc(i)
  /\ status' = "ready"
  /\ loads' = RemoveAt(loads, i)
  /\ ed' = Remount(ed, "ready", ResolvedDoc(i))
  /\ race' = RaceOnResolve(i)
  /\ last' = [Ev("loadOk") EXCEPT !.f = loads[i]]
  /\ UNCHANGED <<file, currentPage, stamps, error, exports>>

\* catch block of handleFileChange: arrayBuffer() or getDocument rejected
LoadRejected(i) ==
  /\ i \in 1..Len(loads)
  /\ error' = ErrLoad
  /\ status' = "idle"
  /\ file' = NoFile
  /\ loads' = RemoveAt(loads, i)
  /\ ed' = Remount(ed, "idle", pdfDoc)
  /\ race' = NoRace
  /\ last' = [Ev("loadFailed") EXCEPT !.f = loads[i]]
  /\ UNCHANGED <<pdfDoc, currentPage, stamps, exports>>

\* ------------------------------------------------------------ updateStamp
\* updateStamp whose delete branch keeps the key and marks the stamp unplaced
updateStampUnplace(prev, page, newStamp) ==
  IF newStamp # NoStamp
  THEN [p \in DOMAIN prev \cup {page} |-> IF p = page THEN newStamp ELSE prev[p]]
  ELSE [p \in DOMAIN prev |-> IF p = page THEN [prev[p] EXCEPT !.isPlaced = FALSE] ELSE prev[p]]

\* updateStamp whose delete branch drops every key
updateStampDropAll(prev, page, newStamp) ==
  IF newStamp # NoStamp
  THEN [p \in DOMAIN prev \cup {page} |-> IF p = page THEN newStamp ELSE prev[p]]
  ELSE EmptyStamps

updateStamp(prev, page, newStamp) ==
  IF newStamp # NoStamp
  THEN [p \in DOMAIN prev \cup {page} |-> IF p = page THEN newStamp ELSE prev[p]]
  ELSE [p \in DOMAIN prev \ {page} |-> prev[p]]

\* ------------------------------------------------- handleAddOrRemoveStamp
ToggledStamps ==
  IF currentPage \in DOMAIN stamps
  THEN updateStamp(stamps, currentPage, NoStamp)
  ELSE updateStamp(stamps, currentPage, DefaultStamp)

handleAddOrRemoveStamp ==
  /\ ControlsShown
  /\ stamps' = ToggledStamps
  /\ last' = IF last.op = "toggle" /\ last.n = 1 /\ last.page = currentPage
             THEN [last EXCEPT !.n = 2]
             ELSE [Ev("toggle") EXCEPT !.n = 1, !.page = currentPage, !.before = stamps]
  /\ UNCHANGED <<file, pdfDoc, currentPage, status, error, loads, exports, ed, race>>

\* ------------------------------------------------------------- navigation
PrevTarget == Max(1, currentPage - 1)
NextTarget == Min(numPages, currentPage + 1)

Navigate(op, target) ==
  /\ currentPage' = target
  /\ last' = [Ev(op) EXCEPT !.page = target]
  /\ UNCHANGED <<file, pdfDoc, stamps, status, error, loads, exports, ed, race>>

PreviousPage == ControlsShown /\ Navigate("prevPage", PrevTarget)
NextPage == ControlsShown /\ Navigate("nextPage", NextTarget)
onSelectPage(p) == Mounted(status, pdfDoc, p) /\ Navigate("selectPage", p)

\* --------------------------------------------------------- handleDownload
\* the Download button is rendered
DownloadShown == status = "ready"

\* the guard without its test of the stamps
DownloadBlockedNoFileOnly == file = NoFile

DownloadBlocked == file = NoFile \/ DOMAIN stamps = {}

\* the call from its start to `await file.arrayBuffer()`; what the rest of the
\* call reads (file, stamps, pdfDoc) is what this render's closure captured
handleDownload ==
  /\ DownloadShown
  /\ IF DownloadBlocked
     THEN /\ error' = ErrNoStamp
          /\ last' = Ev("downloadBlocked")
          /\ UNCHANGED <<file, pdfDoc, currentPage, stamps, status, loads, exports, ed, race>>
     ELSE /\ Pending < MaxPending
          /\ error' = NoError
          /\ status' = "processing"
          /\ exports' = Append(exports, [file |-> file, stamps |-> stamps, pdfDoc |-> pdfDoc])
          /\ ed' = Remount(ed, "processing", pdfDoc)
          /\ last' = [Ev("exportStarted") EXCEPT !.f = file, !.before = stamps]
          /\ UNCHANGED <<file, pdfDoc, currentPage, stamps, loads, race>>

\* getPages()[pageNum - 1] is a page and pdfDoc.getPage(pageNum) resolves
PageFound(e, pageNum) ==
  /\ pageNum - 1 < PagesOf(e.file)
  /\ e.pdfDoc # NoDoc
  /\ pageNum <= e.pdfDoc.numPages

\* drawImage on getPages()[0] whatever the page number
DrawImageFirstPage(drawn, pageNum) == [drawn EXCEPT ![1] = @ + 1]

\* page.drawImage on page pageNum of pdfDocToModify
DrawImage(drawn, pageNum) == [drawn EXCEPT ![pageNum] = @ + 1]

\* `for (const pageStr in stamps)`: integer-like keys are visited in ascending
\* order; the result is the number of images drawn on each page, and whether
\* the loop ran to its end
RECURSIVE DrawLoop(_, _, _)
DrawLoop(e, todo, drawn) ==
  IF todo = {} THEN [ok |-> TRUE, drawn |-> drawn]
  ELSE LET pageNum == MinOf(todo)
       IN IF PageFound(e, pageNum)
          THEN DrawLoop(e, todo \ {pageNum}, DrawImage(drawn, pageNum))
          ELSE [ok |-> FALSE, drawn |-> drawn]

RunLoop(e) == DrawLoop(e, DOMAIN e.stamps, [p \in Pages |-> 0])

\* a scale is kept as the fraction num / den
\* `scale = renderedPageWidth / pageWidth`
ExportScale(e, pageNum) ==
  [num |-> ViewportWidth(e.pdfDoc.src, pageNum), den |-> PageSize(e.file, pageNum).width]

\* v / scale, in whole points
Unscale(v, scale) == (v * scale.den) \div scale.num

\* the rectangle without the vertical flip
DrawRectNoFlip(e, pageNum) ==
  LET stampData == e.stamps[pageNum]
      scale == ExportScale(e, pageNum)
  IN [x |-> Unscale(stampData.x, scale),
      y |-> Unscale(stampData.y, scale),
      width |-> Unscale(stampData.width, scale),
      height |-> Unscale(stampData.height, scale)]

\* the rectangle page.drawImage is called with for the stamp of page pageNum
DrawRect(e, pageNum) ==
  LET stampData == e.stamps[pageNum]
      pageHeight == PageSize(e.file, pageNum).height
      scale == ExportScale(e, pageNum)
      stampWidthPoints == Unscale(stampData.width, scale)
      stampHeightPoints == Unscale(stampData.height, scale)
      xPoints == Unscale(stampData.x, scale)
      yPoints == pageHeight - Unscale(stampData.y, scale) - stampHeightPoints
  IN [x |-> xPoints, y |-> yPoints, width |-> stampWidthPoints, height |-> stampHeightPoints]

\* what a run that drew on every stamped page put into the saved document
Drawing(e) ==
  [drawn |-> RunLoop(e).drawn,
   scale |-> [p \in DOMAIN e.stamps |-> ExportScale(e, p)],
   rect |-> [p \in DOMAIN e.stamps |-> DrawRect(e, p)]]

\* the awaited steps of an export run, in order
ExportSteps == {"load", "embed", "page", "draw", "save"}

\* The rest of a handleDownload call, when no step fails: between its first
\* await and this point the call reads only its closure and the documents it
\* loaded itself and writes no component state, so its steps are taken at once.
\* save() resolved, the download is triggered, then `finally` runs.
ExportSaved(i) ==
  /\ i \in 1..Len(exports)
  /\ RunLoop(exports[i]).ok
  /\ status' = "ready"
  /\ exports' = RemoveAt(exports, i)
  /\ ed' = Remount(ed, "ready", pdfDoc)
  /\ last' = [Ev("exportDone") EXCEPT !.f = exports[i].file, !.doc = exports[i].pdfDoc,
                                      !.before = exports[i].stamps,
                                      !.out = [name |-> exports[i].file,
                                               drawn |-> Drawing(exports[i]).drawn,
                                               scale |-> Drawing(exports[i]).scale,
                                               rect |-> Drawing(exports[i]).rect]]
  /\ UNCHANGED <<file, pdfDoc, currentPage, stamps, error, loads, race>>

\* A library call may reject on any run that reaches it; looking up a page
\* throws exactly when the page is missing, and nothing after it is reached.
StepCanFail(e, step) ==
  /\ step = "page" => ~RunLoop(e).ok
  /\ step = "draw" => PageFound(e, MinOf(DOMAIN e.stamps))
  /\ step = "save" => RunLoop(e).ok

\* a failed run without the `finally` block
ExportFailedNoFinally(i, step) ==
  /\ i \in 1..Len(exports)
  /\ StepCanFail(exports[i], step)
  /\ error' = ErrExport
  /\ exports' = RemoveAt(exports, i)
  /\ last' = [Ev("exportFailed") EXCEPT !.f = exports[i].file, !.step = step,
                                        !.before = exports[i].stamps]
  /\ UNCHANGED <<file, pdfDoc, currentPage, stamps, status, loads, ed, race>>

\* The rest of a handleDownload call in which step `step` rejects or throws:
\* `catch`, then `finally`.
ExportFailed(i, step) ==
  /\ i \in 1..Len(exports)
  /\ StepCanFail(exports[i], step)
  /\ error' = ErrExport
  /\ status' = "ready"
  /\ exports' = RemoveAt(exports, i)
  /\ ed' = Remount(ed, "ready", pdfDoc)
  /\ last' = [Ev("exportFailed") EXCEPT !.f = exports[i].file, !.step = step,
                                        !.before = exports[i].stamps]
  /\ UNCHANGED <<file, pdfDoc, currentPage, stamps, loads, race>>

\* ---------------------------------------------------------------- PdfEditor
\* renderPage: `scale = containerWidth / viewport.width`, the scale at which
\* page p of document doc is rasterized into its canvas
RenderScale(doc, p) == [num |-> ContainerWidth, den |-> ViewportWidth(doc.src, p)]

getRelativeCoords(p, e) ==
  [x |-> e.clientX - ContainerRect(p).left, y |-> e.clientY - ContainerRect(p).top]

\* the stamp overlay of page p is rendered (`stamp?.isPlaced`)
OverlayShown(p) == Mounted(status, pdfDoc, p) /\ p \in DOMAIN stamps /\ stamps[p].isPlaced

\* the pointer is over the stamp box of page p
OverStamp(p, e) ==
  LET c == getRelativeCoords(p, e)
      s == stamps[p]
  IN /\ s.x <= c.x /\ c.x <= s.x + s.width
     /\ s.y <= c.y /\ c.y <= s.y + s.height

\* the overlay of page p has been used; MayTouch(p): with p, at most MaxMoved
\* overlays are
Touched(p) == ed[p] # EdInit \/ (p \in DOMAIN stamps /\ stamps[p] # DefaultStamp)
MayTouch(p) == Cardinality({q \in Pages : Touched(q)} \cup {p}) <= MaxMoved

handleStampMouseDown(p, e) ==
  /\ OverlayShown(p)
  /\ OverStamp(p, e)
  /\ LET coords == getRelativeCoords(p, e)
     IN ed' = [ed EXCEPT ![p].dragOffset = [x |-> coords.x - stamps[p].x, y |-> coords.y - stamps[p].y],
                         ![p].isDragging = TRUE]
  /\ last' = [Ev("stampMouseDown") EXCEPT !.page = p]
  /\ UNCHANGED <<file, pdfDoc, currentPage, stamps, status, error, loads, exports, race>>

\* a handle whose mousedown also reaches the handler of the stamp box
handleResizeHandleMouseDownBubbles(p) ==
  /\ OverlayShown(p)
  /\ ed' = [ed EXCEPT ![p].isResizing = TRUE, ![p].isDragging = TRUE]
  /\ last' = [Ev("resizeMouseDown") EXCEPT !.page = p]
  /\ UNCHANGED <<file, pdfDoc, currentPage, stamps, status, error, loads, exports, race>>

handleResizeHandleMouseDown(p) ==
  /\ OverlayShown(p)
  /\ ed' = [ed EXCEPT ![p].isResizing = TRUE]
  /\ last' = [Ev("resizeMouseDown") EXCEPT !.page = p]
  /\ UNCHANGED <<file, pdfDoc, currentPage, stamps, status, error, loads, exports, race>>

\* the stamp handleMouseMove passes to onStampChange while dragging
Dragged(stamp, coords, dragOffset) ==
  [stamp EXCEPT !.x = coords.x - dragOffset.x, !.y = coords.y - dragOffset.y]

\* newHeight * aspectRatio and width / aspectRatio with aspectRatio =
\* stamp.width / stamp.height, in whole pixels
TimesRatio(v, stamp) == (v * stamp.width) \div stamp.height
OverRatio(v, stamp) == (v * stamp.height) \div stamp.width

\* a resize without the 50 pixel floor
ResizedNoFloor(stamp, coords) ==
  LET newWidth == coords.x - stamp.x
      newHeight == coords.y - stamp.y
  IN [stamp EXCEPT !.width = Max(newWidth, TimesRatio(newHeight, stamp)),
                   !.height = OverRatio(Max(newWidth, TimesRatio(newHeight, stamp)), stamp)]

\* the stamp handleMouseMove passes to onStampChange while resizing
Resized(stamp, coords) ==
  LET newWidth == Max(MinSize, coords.x - stamp.x)
      newHeight == Max(MinSize, coords.y - stamp.y)
  IN [stamp EXCEPT !.width = Max(newWidth, TimesRatio(newHeight, stamp)),
                   !.height = OverRatio(Max(newWidth, TimesRatio(newHeight, stamp)), stamp)]

\* handleMouseMove of the editor of page p: both calls of onStampChange are
\* made with the stamp of this render, and the second one overwrites the first
MovedStamps(prev, p, e) ==
  LET stamp == stamps[p]
      coords == getRelativeCoords(p, e)
      s1 == IF ed[p].isDragging
            THEN updateStamp(prev, p, Dragged(stamp, coords, ed[p].dragOffset))
            ELSE prev
  IN IF ed[p].isResizing THEN updateStamp(s1, p, Resized(stamp, coords)) ELSE s1

Listening(p) ==
  /\ Mounted(status, pdfDoc, p)
  /\ p \in DOMAIN stamps
  /\ ed[p].isDragging \/ ed[p].isResizing

\* a mousemove on window runs the listener of every mounted editor
RECURSIVE MoveAll(_, _, _)
MoveAll(prev, todo, e) ==
  IF todo = {} THEN prev
  ELSE LET p == MinOf(todo)
       IN MoveAll(IF Listening(p) THEN MovedStamps(prev, p, e) ELSE prev, todo \ {p}, e)

\* stamps are moved and grown by at most MaxDrift from how they are created
InReach(st) ==
  \A p \in DOMAIN st :
    /\ DefaultX <= st[p].x /\ st[p].x <= DefaultX + MaxDrift
    /\ DefaultY <= st[p].y /\ st[p].y <= DefaultY + MaxDrift
    /\ st[p].width <= DefaultWidth + MaxDrift
    /\ st[p].height <= DefaultHeight + MaxDrift

handleMouseMove(e) ==
  /\ \E p \in Pages : Listening(p)
  /\ InReach(MoveAll(stamps, Pages, e))
  /\ stamps' = MoveAll(stamps, Pages, e)
  /\ last' = [Ev("mouseMove") EXCEPT !.at = e, !.before = stamps]
  /\ UNCHANGED <<file, pdfDoc, currentPage, status, error, loads, exports, ed, race>>

\* a handleMouseUp that only ends a drag
handleMouseUpDragOnly ==
  /\ \E p \in Pages : Mounted(status, pdfDoc, p)
  /\ ed' = [p \in Pages |-> IF Mounted(status, pdfDoc, p)
                            THEN [ed[p] EXCEPT !.isDragging = FALSE]
                            ELSE ed[p]]
  /\ last' = Ev("mouseUp")
  /\ UNCHANGED <<file, pdfDoc, currentPage, stamps, status, error, loads, exports, race>>

\* a mouseup on window runs the listener of every mounted editor
handleMouseUp ==
  /\ \E p \in Pages : Mounted(status, pdfDoc, p)
  /\ ed' = [p \in Pages |-> IF Mounted(status, pdfDoc, p)
                            THEN [ed[p] EXCEPT !.isDragging = FALSE, !.isResizing = FALSE]
                            ELSE ed[p]]
  /\ last' = Ev("mouseUp")
  /\ UNCHANGED <<file, pdfDoc, currentPage, stamps, status, error, loads, exports, race>>

\* ---------------------------------------------------------- specifications
\* the controller: every handler of App and every continuation of its calls
Next ==
  \/ \E sel \in Selectable : handleFileChange(sel)
  \/ \E i \in 1..MaxPending : LoadResolved(i)
  \/ \E i \in 1..MaxPending : LoadRejected(i)
  \/ handleAddOrRemoveStamp
  \/ PreviousPage
  \/ NextPage
  \/ \E p \in Pages : onSelectPage(p)
  \/ handleDownload
  \/ \E i \in 1..MaxPending : ExportSaved(i)
  \/ \E i \in 1..MaxPending, step \in ExportSteps : ExportFailed(i, step)

Spec == Init /\ [][Next]_vars

\* no handler call is suspended at an await
Quiet == Pending = 0

\* the controller and the overlays, when no two asynchronous calls overlap
NextOverlay ==
  \/ Quiet /\ \E sel \in Selectable : handleFileChange(sel)
  \/ \E i \in 1..MaxPending : LoadResolved(i)
  \/ \E i \in 1..MaxPending : LoadRejected(i)
  \/ handleAddOrRemoveStamp
  \/ PreviousPage
  \/ NextPage
  \/ \E p \in Pages : onSelectPage(p)
  \/ Quiet /\ handleDownload
  \/ \E i \in 1..MaxPending : ExportSaved(i)
  \/ \E i \in 1..MaxPending, step \in ExportSteps : ExportFailed(i, step)
  \/ \E p \in Pages, e \in Pointers : MayTouch(p) /\ handleStampMouseDown(p, e)
  \/ \E p \in Pages : MayTouch(p) /\ handleResizeHandleMouseDown(p)
  \/ \E e \in Pointers : handleMouseMove(e)
  \/ handleMouseUp

SpecOverlay == Init /\ [][NextOverlay]_vars

\* the pages whose overlays are used in SpecGestures
GesturePages == 1..2

\* one document, stamped page by page, and the overlays of the first pages
\* with any order of pointer events, two buttons pressed in a row included
NextGestures ==
  \/ Quiet /\ \E sel \in {"a"} : handleFileChange(sel)
  \/ \E i \in 1..MaxPending : LoadResolved(i)
  \/ handleAddOrRemoveStamp
  \/ NextPage
  \/ \E p \in GesturePages, e \in Pointers : handleStampMouseDown(p, e)
  \/ \E p \in GesturePages : handleResizeHandleMouseDown(p)
  \/ \E e \in Pointers : handleMouseMove(e)
  \/ handleMouseUp

SpecGestures == Init /\ [][NextGestures]_vars
\* ------------------------------------------------------------------ claims

\* C1: in every reachable state every key of StampState is a page number of
\* the stored document: keys(stamps) is a subset of 1..numPages.
C1_KeysArePages == DOMAIN stamps \subseteq 1..numPages

\* C2: after any navigation call (previous page, next page, selecting a page)
\* 1 <= currentPage <= numPages holds.
C2_NavigationInRange ==
  last.op \in {"prevPage", "nextPage", "selectPage"} =>
    1 <= currentPage /\ currentPage <= numPages

ToggledTwice == last.op = "toggle" /\ last.n = 2

\* C3 as stated: toggling the stamp of the active page twice in a row returns
\* StampState to the value it had before the first toggle, whatever it was.
C3_ToggleTwiceRestores == ToggledTwice => stamps = last.before

\* C3 as amended: toggling twice in a row returns StampState to its prior value
\* when the page had no stamp or a stamp with the default geometry.
C3_ToggleTwiceRestoresDefault ==
  (ToggledTwice /\ (last.page \in DOMAIN last.before => last.before[last.page] = DefaultStamp))
    => stamps = last.before

C3_Witness ==
  /\ ToggledTwice
  /\ last.page \in DOMAIN last.before
  /\ last.before[last.page] = DefaultStamp
  /\ \E q \in DOMAIN stamps : stamps[q] # DefaultStamp
DownloadClicked == last'.op \in {"downloadBlocked", "exportStarted"}

\* C4: Export invoked when no file is loaded or StampState is empty sets the
\* 'add at least one stamp' error and does nothing else: status does not become
\* processing, no export run starts, nothing is downloaded, and file, document
\* handle, stamps and current page are unchanged.
C4_BlockedExportDoesNothing ==
  [][(DownloadClicked /\ (file = NoFile \/ DOMAIN stamps = {})) =>
       /\ error' = ErrNoStamp
       /\ status' = status /\ status' # "processing"
       /\ exports' = exports
       /\ last'.out = NoDownload
       /\ file' = file /\ pdfDoc' = pdfDoc /\ stamps' = stamps /\ currentPage' = currentPage]_vars

C4_Witness ==
  /\ last.op = "downloadBlocked"
  /\ file # NoFile /\ pdfDoc # NoDoc
  /\ DOMAIN stamps = {}
  /\ error = ErrNoStamp

FileChosen == last'.op \in {"fileAccepted", "fileRejected"}

\* C5: selecting a file whose declared type is not application/pdf, or no file,
\* sets a user-visible error and changes nothing else: status, selected file,
\* document handle, StampState and current page keep their values and no load
\* is started.
C5_RejectedFileChangesNothing ==
  [][(FileChosen /\ (last'.f = NoFile \/ FileType(last'.f) # "application/pdf")) =>
       /\ error' = ErrInvalid
       /\ status' = status /\ file' = file /\ pdfDoc' = pdfDoc
       /\ stamps' = stamps /\ currentPage' = currentPage
       /\ loads' = loads]_vars

C5_Witness ==
  /\ last.op = "fileRejected"
  /\ last.f \in OtherFiles
  /\ status = "ready" /\ file # NoFile /\ DOMAIN stamps # {}
  /\ error = ErrInvalid

\* C6: at no time are two export runs in flight.
C6_OneExportAtATime == Len(exports) <= 1

BothResolved == last.op = "loadOk" /\ race.st \in {"done12", "done21"}
ResolvedLast == IF race.st = "done12" THEN race.f2 ELSE race.f1

C8_AcceptedFileReplacesSession ==
  last.op = "fileAccepted" =>
    /\ stamps = EmptyStamps /\ currentPage = 1 /\ pdfDoc = NoDoc
    /\ file = last.f /\ error = NoError /\ status = "loading"

C8_Witness == last.op = "fileAccepted" /\ Len(exports) = 1 /\ file = "b"

\* C9: if any step of an export run fails, no download is initiated, the
\* generic export error is set, StampState is unchanged, and the run ends with
\* status ready.
C9_FailedExportAborts ==
  [][last'.op = "exportFailed" =>
       /\ last'.out = NoDownload
       /\ error' = ErrExport
       /\ stamps' = stamps
       /\ status' = "ready"
       /\ Len(exports') = Len(exports) - 1]_vars

C9_Witness ==
  /\ last.op = "exportFailed" /\ last.step = "page"
  /\ error = ErrExport /\ status = "ready" /\ DOMAIN stamps # {}

\* C10: a successful export draws the stamp image exactly once on each page
\* whose number is a key of StampState when the export was started, and draws
\* nothing on any other page.
C10_DrawsOncePerStampedPage ==
  last.op = "exportDone" =>
    \A p \in Pages : last.out.drawn[p] = IF p \in DOMAIN last.before THEN 1 ELSE 0

C10_Witness ==
  /\ last.op = "exportDone"
  /\ DOMAIN last.before = {1}
  /\ PagesOf(last.f) >= 2

\* two fractions denote the same scale
SameScale(a, b) == a.num * b.den = b.num * a.den

\* C11: the scale a successful export used for a stamped page equals the scale
\* at which the editor rasterized that page on screen (container width over
\* the page's intrinsic width), so the drawn rectangle's x, width and height
\* are the on-screen ones divided by the on-screen scale.
C11_ExportScaleIsDisplayScale ==
  last.op = "exportDone" =>
    \A p \in DOMAIN last.before :
      /\ SameScale(last.out.scale[p], RenderScale(last.doc, p))
      /\ last.out.rect[p].x = Unscale(last.before[p].x, RenderScale(last.doc, p))
      /\ last.out.rect[p].width = Unscale(last.before[p].width, RenderScale(last.doc, p))
      /\ last.out.rect[p].height = Unscale(last.before[p].height, RenderScale(last.doc, p))

\* C12: for each stamped page with point-space size (W, H) and scale
\* s = (viewport width at scale 1) / W, a successful export draws the image at
\* x = stamp.x / s, width = stamp.width / s, height = stamp.height / s and
\* y = H - stamp.y / s - stamp.height / s, so that the top edge of the drawn
\* rectangle lies stamp.y / s below the top of the page.
C12_ExportRectangle ==
  last.op = "exportDone" =>
    \A p \in DOMAIN last.before :
      LET st == last.before[p]
          W == PageSize(last.f, p).width
          H == PageSize(last.f, p).height
          vw == ViewportWidth(last.doc.src, p)
          r == last.out.rect[p]
      IN /\ r.x = (st.x * W) \div vw
         /\ r.width = (st.width * W) \div vw
         /\ r.height = (st.height * W) \div vw
         /\ r.y = H - (st.y * W) \div vw - (st.height * W) \div vw
         /\ H - (r.y + r.height) = (st.y * W) \div vw

C12_Witness ==
  /\ last.op = "exportDone"
  /\ last.f = "b"
  /\ last.before[1].x # DefaultX
  /\ last.before[1].width # DefaultWidth
  /\ last.out.scale[1].num # last.out.scale[1].den

\* a pointer move reaches the editor of page p while it is resizing
ResizeMove(p) == last'.op = "mouseMove" /\ Listening(p) /\ ed[p].isResizing

\* C13: on every pointer move of a resize gesture, wherever the pointer is, the
\* stamp's width and height are at least 50 afterwards, its width/height ratio
\* is the one it had before the move, which is the ratio it had when the
\* gesture started (every stamp has the ratio stamps are created with), and
\* its x and y are unchanged.
C13_ResizeKeepsFloorRatioAnchor ==
  [][\A p \in Pages : ResizeMove(p) =>
       /\ p \in DOMAIN stamps'
       /\ stamps'[p].width >= MinSize /\ stamps'[p].height >= MinSize
       /\ stamps[p].width * DefaultHeight = stamps[p].height * DefaultWidth
       /\ stamps'[p].width * stamps[p].height = stamps'[p].height * stamps[p].width
       /\ stamps'[p].x = stamps[p].x /\ stamps'[p].y = stamps[p].y]_vars

C13_Witness ==
  /\ last.op = "mouseMove"
  /\ \E p \in DOMAIN stamps :
       /\ ed[p].isResizing /\ ~ed[p].isDragging
       /\ stamps[p].width = MinSize /\ last.before[p].width > DefaultWidth
       /\ stamps[p].y = DefaultY + 20
       /\ stamps[p].x # DefaultX

\* a pointer move reaches the editor of page p while it is dragging and not
\* resizing
DragMove(p) == last'.op = "mouseMove" /\ Listening(p) /\ ed[p].isDragging /\ ~ed[p].isResizing

\* C14: on every pointer move of a pure drag the dragged stamp's x and y become
\* the pointer position relative to the page's container minus the grab offset
\* captured at pointer-down; its width, height and isPlaced, and the stamp of
\* every other page, are unchanged.
C14_DragMovesOnlyPosition ==
  [][\A p \in Pages : DragMove(p) =>
       /\ DOMAIN stamps' = DOMAIN stamps
       /\ stamps'[p].x = (last'.at.clientX - ContainerRect(p).left) - ed[p].dragOffset.x
       /\ stamps'[p].y = (last'.at.clientY - ContainerRect(p).top) - ed[p].dragOffset.y
       /\ stamps'[p].width = stamps[p].width
       /\ stamps'[p].height = stamps[p].height
       /\ stamps'[p].isPlaced = stamps[p].isPlaced
       /\ \A q \in DOMAIN stamps \ {p} : stamps'[q] = stamps[q]]_vars

\* C15: in every reachable state every Stamp in StampState has isPlaced = true;
\* removing a stamp deletes the page's key.
C15_EveryStampPlaced ==
  /\ \A p \in DOMAIN stamps : stamps[p].isPlaced
  /\ (last.op = "toggle" /\ last.n = 1 /\ last.page \in DOMAIN last.before) =>
       last.page \notin DOMAIN stamps

C15_Witness ==
  /\ last.op = "toggle" /\ last.n = 1
  /\ last.page \in DOMAIN last.before
  /\ last.before[last.page] # DefaultStamp
  /\ DOMAIN stamps # {}

\* C16: whenever the overlay of some page is dragging or resizing, and whenever
\* a pointer move has just changed the geometry of some page's stamp, that
\* page is currentPage.
C16_OnlyActivePageInteractive ==
  /\ \A p \in Pages : (ed[p].isDragging \/ ed[p].isResizing) => p = currentPage
  /\ last.op = "mouseMove" =>
       \A p \in DOMAIN stamps : stamps[p] # last.before[p] => p = currentPage

AllIdle == \A p \in Pages : ~ed[p].isDragging /\ ~ed[p].isResizing
PointerDown == last'.op \in {"stampMouseDown", "resizeMouseDown"}

\* C17: immediately after any pointer-up every page's overlay is idle; while
\* all overlays are idle they stay idle until the next pointer-down on a stamp
\* or a resize handle, and a pointer move, wherever the pointer is, leaves
\* StampState as it is (such a move returns at the guard of handleMouseMove
\* in every editor, which is a step that changes nothing).
C17_PointerUpEndsInteraction ==
  [][/\ last'.op = "mouseUp" => AllIdle'
     /\ (AllIdle /\ ~PointerDown) => AllIdle'
     /\ AllIdle => \A e \in Pointers : MoveAll(stamps, Pages, e) = stamps]_vars

C17_Witness ==
  /\ last.op = "mouseUp"
  /\ AllIdle
  /\ \E p \in DOMAIN stamps :
       /\ stamps[p].x # DefaultX /\ stamps[p].width # DefaultWidth
       /\ ed[p].dragOffset # EdInit.dragOffset

NonIdle(e) == {p \in Pages : e[p].isDragging \/ e[p].isResizing}

\* C18: when pointer-down and pointer-up alternate, every pointer-down finds
\* all overlays idle (C17: a pointer-up leaves them idle and they stay so until
\* the next pointer-down). Such a pointer-down leaves exactly the overlay it
\* was made on non-idle, with one flag set: isResizing and not isDragging for
\* the resize handle, isDragging and not isResizing for the stamp box. No
\* other step sets a flag. So on such runs no overlay has both flags set and
\* at most one overlay is non-idle.
C18_ThreeStateMachine ==
  [][/\ (PointerDown /\ AllIdle) =>
          /\ NonIdle(ed') = {last'.page}
          /\ ~(ed'[last'.page].isDragging /\ ed'[last'.page].isResizing)
          /\ (ed'[last'.page].isResizing <=> last'.op = "resizeMouseDown")
     /\ ~PointerDown =>
          \A p \in Pages : (ed'[p].isDragging => ed[p].isDragging)
                            /\ (ed'[p].isResizing => ed[p].isResizing)]_vars

C18_Witness ==
  /\ last.op = "resizeMouseDown"
  /\ NonIdle(ed) = {last.page}
  /\ ed[last.page].isResizing /\ ~ed[last.page].isDragging
  /\ stamps[last.page].x # DefaultX
  /\ Cardinality(DOMAIN stamps) > 1

\* C19: in every reachable state status is loading exactly while a file load
\* is in flight and processing exactly while an export run is in flight, so
\* status is idle or ready only when nothing is in flight.
C19_StatusMirrorsInFlight ==
  /\ status = "loading" <=> loads # <<>>
  /\ status = "processing" <=> exports # <<>>
  /\ status \in {"idle", "ready"} => Pending = 0

\* C20: whenever status is ready, a file is selected, the stored document
\* handle is not null, and the handle was parsed from the selected file.
C20_ReadyDocIsOfSelectedFile ==
  status = "ready" => file # NoFile /\ pdfDoc # NoDoc /\ pdfDoc.src = file
====
